---- MODULE Spec2Model ----
(***************************************************************************)
(* Model of the prayer-bot repository: the reusable WhatsAppBot class      *)
(* (session flag, event listeners, sendPoll / sendMessage / initialize /   *)
(* destroy) and the PrayerReminderBot application built on it (ready       *)
(* handler, cron schedule, command handler, recurring poll dispatch,       *)
(* shutdown).                                                              *)
(*                                                                         *)
(* Three specifications share the variables:                               *)
(*   SpecBot      - a WhatsAppBot constructed on its own (no handler       *)
(*                  registered), driven through its public methods;       *)
(*   SpecRegistry - a WhatsAppBot whose caller registers handlers;         *)
(*   Spec         - the PrayerReminderBot process started by main().       *)
(* Asynchronous methods are split at their suspension points (await).      *)
(***************************************************************************)
EXTENDS Integers, Sequences, FiniteSets, TLC

\* ------------------------------------------------------------------ bounds
MaxOptions ==
  13
MaxInit ==
  2
MaxTasks ==
  2
MaxInflight ==
  2
MaxClock ==
  3
MaxReadyPending ==
  1
MaxRegs ==
  2

\* ------------------------------------------------------- program constants
MinPollOptions ==
  2
MaxPollOptions ==
  12
NumPollOptions ==
  9
DayLen ==
  2
FireSlot ==
  1

VARIABLES
  isInitialized,   \* WhatsAppBot.isInitialized
  eventHandlers,   \* WhatsAppBot.eventHandlers: event name -> handler or "none"
  client,          \* state of the underlying whatsapp-web.js Client
  initCalls,       \* number of client.initialize() invocations
  lifecycle,       \* last of: ready event, disconnected event, completed destroy
  apiCall,         \* the latest direct sendPoll / sendMessage call
  destroyPc,       \* position of destroy(): none / closing / returned / raised
  proc,            \* the process: constructed / started / stopping / exited
  testMode,        \* process.env.TEST_MODE === 'true'
  readyPending,    \* onReady handlers suspended on getBotInfo()
  scheduledTask,   \* PrayerReminderBot.scheduledTask (0 = null)
  tasks,           \* cron tasks that are running
  nTasks,          \* cron tasks created so far
  due,             \* running cron tasks whose callback is due at `now`
  now,             \* the clock, in ticks
  dispatches,      \* executions of sendDailyPrayerPoll whose send is in flight
  lastTrigger,     \* the latest invocation of sendDailyPrayerPoll since the
                   \* send of a dispatch last settled
  lastSettled,     \* outcome of the latest settled sendDailyPrayerPoll
  lastReply,       \* the latest message.reply() issued by the command handler
  lastDisconnect,  \* the onDisconnected call of the present disconnection
  delivered,       \* 'message' events of the present session, modulo 2
  lastAuthFailure, \* the onAuthenticationFailure call of the present attempt
  targetSet,       \* process.env.TARGET_CHAT_ID is set and not empty
  exitCode,        \* status the process exited with (-1 while it runs)
  registered,      \* the on() calls made so far, as <<event name, handler>>
  called           \* the latest call of a handler supplied by a caller

botVars ==
  <<isInitialized, eventHandlers, client, initCalls, lifecycle,
    apiCall, destroyPc, registered, called>>

appVars ==
  <<proc, testMode, readyPending, scheduledTask, tasks, nTasks, due, now,
    dispatches, lastTrigger, lastSettled, lastReply, lastDisconnect,
    delivered, lastAuthFailure, targetSet, exitCode>>

schedVars ==
  <<scheduledTask, tasks, nTasks, due, now>>

dispatchVars ==
  <<dispatches, lastTrigger, lastSettled, lastReply>>

vars ==
  <<isInitialized, eventHandlers, client, initCalls, lifecycle,
    apiCall, destroyPc, proc, testMode, readyPending, scheduledTask, tasks,
    nTasks, due, now, dispatches, lastTrigger, lastSettled, lastReply,
    lastDisconnect, delivered, lastAuthFailure, targetSet, exitCode,
    registered, called>>

\* ------------------------------------------------------------ value spaces
EventNames ==
  {"onQR", "onAuthenticated", "onAuthenticationFailure", "onReady",
   "onMessage", "onDisconnected"}

NoCall ==
  [op |-> "none", nopts |-> 0, chatEmpty |-> FALSE,
   parseMentions |-> FALSE, readyAtCall |-> FALSE, st |-> "none",
   attempts |-> 0]

NoTrigger ==
  [origin |-> "none", overlap |-> FALSE, result |-> "none"]

\* The `reason` strings whatsapp-web.js passes with 'disconnected'.
Reasons ==
  {"LOGOUT", "NAVIGATION"}

NoDisconnect ==
  [calls |-> 0, arg |-> "none"]

\* The `message` of the error the client passes with 'auth_failure'.
FailureMessages ==
  {"session expired", "pairing refused"}

NoAuthFailure ==
  [calls |-> 0, arg |-> "none"]

\* Handlers a caller of the class can register: a function that returns,
\* a function that throws, an async function that rejects after an await.
UserHandlers ==
  {"returns", "throws", "rejects"}

NoCalled ==
  [event |-> "none", handler |-> "none", escaped |-> "none"]

\* ------------------------------------------------ WhatsAppBot: pure parts
\* Mutant of ensureInitialized: the check never throws.
ensureInitialized_NeverThrows(init) ==
  "ok"

\* ensureInitialized(): throws unless the flag is set.
ensureInitialized(init) ==
  IF ~init THEN "NotInitialized" ELSE "ok"

\* isReady(): returns the flag.
isReady ==
  isInitialized

\* Mutant of sendPoll: the upper option-count check is missing.
sendPoll_NoUpperBound(init, nopts, chatEmpty) ==
  IF ~init THEN "NotInitialized"
  ELSE IF nopts < MinPollOptions THEN "TooFew"
  ELSE "Sending"

\* Mutant of sendPoll: the option-count checks come before the readiness
\* check.
sendPoll_ValidatesFirst(init, nopts, chatEmpty) ==
  IF nopts < MinPollOptions THEN "TooFew"
  ELSE IF nopts > MaxPollOptions THEN "TooMany"
  ELSE IF ~init THEN "NotInitialized"
  ELSE "Sending"

\* sendPoll() up to its first await: the readiness check, then the two
\* option-count checks, then client.sendMessage(chatId, poll) is invoked.
\* The chat id is not examined.
sendPoll(init, nopts, chatEmpty) ==
  IF ensureInitialized(init) # "ok" THEN "NotInitialized"
  ELSE IF nopts < MinPollOptions THEN "TooFew"
  ELSE IF nopts > MaxPollOptions THEN "TooMany"
  ELSE "Sending"

\* sendMessage() up to its first await: the readiness check, then either
\* `await this.parseMentions(...)` or client.sendMessage(...) directly.
sendMessage(init, parseMentions) ==
  IF ensureInitialized(init) # "ok" THEN "NotInitialized"
  ELSE IF parseMentions THEN "Mentions"
  ELSE "Sending"

\* ------------------------------------------------------------------- Init
InitCommon ==
  /\ isInitialized = FALSE
  /\ client = "idle"
  /\ initCalls = 0
  /\ lifecycle = "none"
  /\ apiCall = NoCall
  /\ destroyPc = "none"
  /\ exitCode = -1
  /\ registered = <<>>
  /\ called = NoCalled
  /\ readyPending = 0
  /\ scheduledTask = 0
  /\ tasks = {}
  /\ nTasks = 0
  /\ due = {}
  /\ now = 0
  /\ dispatches = <<>>
  /\ lastTrigger = NoTrigger
  /\ lastSettled = "none"
  /\ lastReply = "none"
  /\ lastDisconnect = NoDisconnect
  /\ delivered = 0
  /\ lastAuthFailure = NoAuthFailure

\* new WhatsAppBot(config): no handler registered.
InitBot ==
  /\ InitCommon
  /\ eventHandlers = [e \in EventNames |-> "none"]
  /\ proc = "constructed"
  /\ testMode = FALSE
  /\ targetSet = TRUE

\* The process has been launched and main() is about to run; the
\* environment holds TEST_MODE and may hold TARGET_CHAT_ID.
Init ==
  /\ InitCommon
  /\ eventHandlers = [e \in EventNames |-> "none"]
  /\ proc = "launched"
  /\ testMode \in BOOLEAN
  /\ targetSet \in BOOLEAN


\* ------------------------------------------ PrayerReminderBot: dispatch
\* Mutant of sendDailyPrayerPoll: a dispatch guard that a failed send
\* leaves taken, so that the invocation after a failure is skipped.
sendDailyPrayerPoll_StuckGuard(origin) ==
  LET r == sendPoll(isInitialized, NumPollOptions, FALSE)
      busy == Len(dispatches) > 0
  IN  IF lastSettled = "SendError"
      THEN /\ lastTrigger' = [origin |-> origin, overlap |-> busy,
                              result |-> "skipped"]
           /\ UNCHANGED <<dispatches, lastSettled, lastReply>>
      ELSE /\ lastTrigger' = [origin |-> origin, overlap |-> busy,
                              result |-> "executed"]
           /\ IF r = "Sending"
              THEN /\ Len(dispatches) < MaxInflight
                   /\ dispatches' = Append(dispatches, [origin |-> origin])
                   /\ UNCHANGED <<lastSettled, lastReply>>
              ELSE /\ dispatches' = dispatches
                   /\ lastSettled' = r
                   /\ lastReply' = IF origin = "command" THEN "ack"
                                   ELSE lastReply

\* sendDailyPrayerPoll(): builds the poll from POLL_OPTIONS and calls
\* bot.sendPoll() for targetChatId inside try/catch.  Up to the first await
\* it either has the transport send in flight, or has failed; a failure is
\* caught and logged.  No guard is consulted: the body always runs.
\* The command handler replies with the acknowledgment once the call has
\* settled, whatever its outcome.
sendDailyPrayerPoll(origin) ==
  LET r == sendPoll(isInitialized, NumPollOptions, FALSE)
      busy == Len(dispatches) > 0
  IN  /\ lastTrigger' = [origin |-> origin, overlap |-> busy,
                         result |-> "executed"]
      /\ IF r = "Sending"
         THEN /\ Len(dispatches) < MaxInflight
              /\ dispatches' = Append(dispatches, [origin |-> origin])
              /\ UNCHANGED <<lastSettled, lastReply>>
         ELSE /\ dispatches' = dispatches
              /\ lastSettled' = r
              /\ lastReply' = IF origin = "command" THEN "ack" ELSE lastReply

RemoveAt(s, i) ==
  [j \in 1..(Len(s) - 1) |-> IF j < i THEN s[j] ELSE s[j + 1]]

\* The transport acknowledges the poll of dispatch i: sendPoll returns,
\* sendDailyPrayerPoll logs success and settles.
PollSent(i) ==
  /\ proc # "exited"
  /\ i \in 1..Len(dispatches)
  /\ dispatches' = RemoveAt(dispatches, i)
  /\ lastSettled' = "Sent"
  /\ lastReply' = IF dispatches[i].origin = "command" THEN "ack" ELSE lastReply
  /\ lastTrigger' = NoTrigger
  /\ UNCHANGED botVars
  /\ UNCHANGED <<proc, exitCode, targetSet, testMode, readyPending,
                 lastDisconnect, lastAuthFailure, delivered>>
  /\ UNCHANGED schedVars

\* Mutant of PollFailed: the failure escapes sendDailyPrayerPoll and ends
\* the process.
PollFailed_Crashes(i) ==
  /\ proc # "exited"
  /\ i \in 1..Len(dispatches)
  /\ dispatches' = RemoveAt(dispatches, i)
  /\ lastSettled' = "SendError"
  /\ lastTrigger' = NoTrigger
  /\ proc' = "exited"
  /\ exitCode' = 1
  /\ UNCHANGED lastReply
  /\ UNCHANGED botVars
  /\ UNCHANGED <<targetSet, testMode, readyPending, lastDisconnect,
                 lastAuthFailure, delivered>>
  /\ UNCHANGED schedVars

\* Mutant of PollFailed: the failed send is attempted again.
PollFailed_Retries(i) ==
  /\ proc # "exited"
  /\ i \in 1..Len(dispatches)
  /\ dispatches' = dispatches
  /\ lastSettled' = "SendError"
  /\ lastTrigger' = NoTrigger
  /\ UNCHANGED lastReply
  /\ UNCHANGED botVars
  /\ UNCHANGED <<proc, exitCode, targetSet, testMode, readyPending,
                 lastDisconnect, lastAuthFailure, delivered>>
  /\ UNCHANGED schedVars

\* The transport rejects the poll of dispatch i: sendPoll rethrows
\* "Failed to send poll: ...", the catch block of sendDailyPrayerPoll logs it.
PollFailed(i) ==
  /\ proc # "exited"
  /\ i \in 1..Len(dispatches)
  /\ dispatches' = RemoveAt(dispatches, i)
  /\ lastSettled' = "SendError"
  /\ lastReply' = IF dispatches[i].origin = "command" THEN "ack" ELSE lastReply
  /\ lastTrigger' = NoTrigger
  /\ UNCHANGED botVars
  /\ UNCHANGED <<proc, exitCode, targetSet, testMode, readyPending,
                 lastDisconnect, lastAuthFailure, delivered>>
  /\ UNCHANGED schedVars

\* Mutant of scheduleDailyPoll: a task created after a fire time has passed
\* runs its callback at once for the occurrence it missed.
scheduleDailyPoll_CatchUp ==
  /\ nTasks < MaxTasks
  /\ nTasks' = nTasks + 1
  /\ scheduledTask' = nTasks + 1
  /\ tasks' = tasks \cup {nTasks + 1}
  /\ due' = IF now >= FireSlot THEN due \cup {nTasks + 1} ELSE due
  /\ UNCHANGED now

\* scheduleDailyPoll(): cron.schedule(...) creates a running task and
\* stores it in scheduledTask; a task stored there before is not stopped.
scheduleDailyPoll ==
  /\ nTasks < MaxTasks
  /\ nTasks' = nTasks + 1
  /\ scheduledTask' = nTasks + 1
  /\ tasks' = tasks \cup {nTasks + 1}
  /\ UNCHANGED <<due, now>>

\* Mutant of stopScheduledTask: stop() on a task that is stopped already
\* starts it again.
stopScheduledTask_Toggle ==
  /\ tasks' = IF scheduledTask \in tasks THEN tasks \ {scheduledTask}
              ELSE IF scheduledTask # 0 THEN tasks \cup {scheduledTask}
              ELSE tasks
  /\ due' = due \ {scheduledTask}
  /\ UNCHANGED <<scheduledTask, nTasks, now>>

\* `if (this.scheduledTask) this.scheduledTask.stop()`
stopScheduledTask ==
  /\ tasks' = tasks \ {scheduledTask}
  /\ due' = due \ {scheduledTask}
  /\ UNCHANGED <<scheduledTask, nTasks, now>>

\* ------------------------------------------- WhatsAppBot: client listeners
\* Where a failure of the handler of event e goes.  The listeners call the
\* handler without awaiting it; the 'message' listener is itself async.
Escapes(e, h) ==
  CASE h = "throws" -> IF e = "onMessage" THEN "unhandled" ELSE "emitter"
    [] h = "rejects" -> "unhandled"
    [] OTHER -> "none"

\* `this.eventHandlers.<e>?.(...)`: calls the handler registered for e, if
\* there is one.  The application's handlers are modelled by what they do.
Invoke(e) ==
  called' = IF eventHandlers[e] \in UserHandlers
            THEN [event |-> e, handler |-> eventHandlers[e],
                  escaped |-> Escapes(e, eventHandlers[e])]
            ELSE called
Alive ==
  proc # "exited"

\* client.on('qr'): logs, calls onQR.  The client shows a code while it is
\* connecting, and again after a logout.
ClientQr ==
  /\ Alive
  /\ client \in {"connecting", "disconnected"}
  /\ client' = "connecting"
  /\ lastDisconnect' = NoDisconnect
  /\ Invoke("onQR")
  /\ UNCHANGED lastAuthFailure
  /\ UNCHANGED registered
  /\ UNCHANGED <<isInitialized, eventHandlers, initCalls, lifecycle, apiCall,
                 destroyPc>>
  /\ UNCHANGED <<proc, exitCode, targetSet, testMode, readyPending, delivered>>
  /\ UNCHANGED schedVars
  /\ UNCHANGED dispatchVars

\* Mutant of ClientAuthenticated: the listener also sets the flag.
ClientAuthenticated_SetsFlag ==
  /\ proc # "exited"
  /\ client = "connecting"
  /\ client' = "authenticated"
  /\ isInitialized' = TRUE
  /\ Invoke("onAuthenticated")
  /\ UNCHANGED registered
  /\ UNCHANGED <<eventHandlers, initCalls, lifecycle, apiCall, destroyPc>>
  /\ UNCHANGED appVars

\* client.on('authenticated'): logs, calls onAuthenticated.
ClientAuthenticated ==
  /\ Alive
  /\ client = "connecting"
  /\ client' = "authenticated"
  /\ Invoke("onAuthenticated")
  /\ UNCHANGED registered
  /\ UNCHANGED <<isInitialized, eventHandlers, initCalls, lifecycle, apiCall,
                 destroyPc>>
  /\ UNCHANGED appVars

\* Mutant of ClientAuthFailure: the listener starts a new connection
\* attempt by calling initialize().
ClientAuthFailure_Retries(message) ==
  /\ Alive
  /\ client = "connecting"
  /\ initCalls < MaxInit
  /\ initCalls' = initCalls + 1
  /\ client' = "connecting"
  /\ lastAuthFailure' = IF eventHandlers["onAuthenticationFailure"] = "app"
                        THEN [calls |-> 1, arg |-> message]
                        ELSE NoAuthFailure
  /\ Invoke("onAuthenticationFailure")
  /\ UNCHANGED registered
  /\ UNCHANGED <<isInitialized, eventHandlers, lifecycle, apiCall, destroyPc>>
  /\ UNCHANGED <<proc, exitCode, targetSet, testMode, readyPending,
                 lastDisconnect, delivered>>
  /\ UNCHANGED schedVars
  /\ UNCHANGED dispatchVars

\* client.on('auth_failure'): logs, calls onAuthenticationFailure with the
\* message of the error.  The application's handler logs the message and a
\* hint to delete the stored session; it calls nothing.
ClientAuthFailure(message) ==
  /\ Alive
  /\ client = "connecting"
  /\ client' = "failed"
  /\ lastAuthFailure' = IF eventHandlers["onAuthenticationFailure"] = "app"
                        THEN [calls |-> 1, arg |-> message]
                        ELSE NoAuthFailure
  /\ Invoke("onAuthenticationFailure")
  /\ UNCHANGED registered
  /\ UNCHANGED <<isInitialized, eventHandlers, initCalls, lifecycle, apiCall,
                 destroyPc>>
  /\ UNCHANGED <<proc, exitCode, targetSet, testMode, readyPending,
                 lastDisconnect, delivered>>
  /\ UNCHANGED schedVars
  /\ UNCHANGED dispatchVars

\* Mutant of ClientReady: without a handler the event is dropped before
\* the flag is set.
ClientReady_NeedsHandler ==
  /\ Alive
  /\ client \in {"authenticated", "ready"}
  /\ client' = "ready"
  /\ lifecycle' = "ready"
  /\ isInitialized' = IF eventHandlers["onReady"] = "none"
                      THEN isInitialized ELSE TRUE
  /\ IF eventHandlers["onReady"] = "app"
     THEN /\ readyPending < MaxReadyPending
          /\ nTasks + readyPending < MaxTasks
          /\ readyPending' = readyPending + 1
     ELSE UNCHANGED readyPending
  /\ Invoke("onReady")
  /\ UNCHANGED registered
  /\ UNCHANGED <<eventHandlers, initCalls, apiCall, destroyPc>>
  /\ UNCHANGED <<proc, exitCode, targetSet, testMode, lastDisconnect,
                 lastAuthFailure, delivered>>
  /\ UNCHANGED schedVars
  /\ UNCHANGED dispatchVars

\* client.on('ready'): sets the flag, calls onReady.  The application's
\* onReady handler logs and suspends on `await this.bot.getBotInfo()`.
ClientReady ==
  /\ Alive
  /\ client \in {"authenticated", "ready"}
  /\ client' = "ready"
  /\ lifecycle' = "ready"
  /\ isInitialized' = TRUE
  /\ IF eventHandlers["onReady"] = "app"
     THEN /\ readyPending < MaxReadyPending
          /\ nTasks + readyPending < MaxTasks
          /\ readyPending' = readyPending + 1
     ELSE UNCHANGED readyPending
  /\ Invoke("onReady")
  /\ UNCHANGED registered
  /\ UNCHANGED <<eventHandlers, initCalls, apiCall, destroyPc>>
  /\ UNCHANGED <<proc, exitCode, targetSet, testMode, lastDisconnect,
                 lastAuthFailure, delivered>>
  /\ UNCHANGED schedVars
  /\ UNCHANGED dispatchVars

\* Mutant of onReadyResume: the dispatch on ready is made whatever
\* TEST_MODE holds.
onReadyResume_AlwaysDispatches ==
  /\ Alive
  /\ readyPending > 0
  /\ readyPending' = readyPending - 1
  /\ scheduleDailyPoll
  /\ sendDailyPrayerPoll("ready")
  /\ UNCHANGED botVars
  /\ UNCHANGED <<proc, exitCode, targetSet, testMode, lastDisconnect,
                 lastAuthFailure, delivered>>

\* The rest of the application's onReady handler, after getBotInfo() has
\* settled (its failure is caught): scheduleDailyPoll(), then, in test
\* mode, sendDailyPrayerPoll().
onReadyResume ==
  /\ Alive
  /\ readyPending > 0
  /\ readyPending' = readyPending - 1
  /\ scheduleDailyPoll
  /\ IF testMode
     THEN sendDailyPrayerPoll("ready")
     ELSE UNCHANGED dispatchVars
  /\ UNCHANGED botVars
  /\ UNCHANGED <<proc, exitCode, targetSet, testMode, lastDisconnect,
                 lastAuthFailure, delivered>>

\* Mutant of ClientDisconnected: the application's handler also reconnects
\* by calling initialize().
ClientDisconnected_Reconnects(reason) ==
  /\ Alive
  /\ client = "ready"
  /\ initCalls < MaxInit
  /\ initCalls' = initCalls + 1
  /\ client' = "connecting"
  /\ lifecycle' = "disconnected"
  /\ isInitialized' = FALSE
  /\ IF eventHandlers["onDisconnected"] = "app"
     THEN /\ lastDisconnect' = [calls |-> 1, arg |-> reason]
          /\ stopScheduledTask
     ELSE /\ lastDisconnect' = NoDisconnect
          /\ UNCHANGED schedVars
  /\ delivered' = 0
  /\ Invoke("onDisconnected")
  /\ UNCHANGED lastAuthFailure
  /\ UNCHANGED registered
  /\ UNCHANGED <<eventHandlers, apiCall, destroyPc>>
  /\ UNCHANGED <<proc, exitCode, targetSet, testMode, readyPending>>
  /\ UNCHANGED dispatchVars

\* Mutant of ClientDisconnected: the application's handler leaves the
\* scheduled task running.
ClientDisconnected_KeepsSchedule(reason) ==
  /\ Alive
  /\ client = "ready"
  /\ client' = "disconnected"
  /\ lifecycle' = "disconnected"
  /\ isInitialized' = FALSE
  /\ lastDisconnect' = IF eventHandlers["onDisconnected"] = "app"
                       THEN [calls |-> 1, arg |-> reason]
                       ELSE NoDisconnect
  /\ delivered' = 0
  /\ UNCHANGED schedVars
  /\ Invoke("onDisconnected")
  /\ UNCHANGED lastAuthFailure
  /\ UNCHANGED registered
  /\ UNCHANGED <<eventHandlers, initCalls, apiCall, destroyPc>>
  /\ UNCHANGED <<proc, exitCode, targetSet, testMode, readyPending>>
  /\ UNCHANGED dispatchVars

\* client.on('disconnected'): clears the flag, calls onDisconnected(reason).
\* The application's handler logs and stops the task in scheduledTask.
ClientDisconnected(reason) ==
  /\ Alive
  /\ client = "ready"
  /\ client' = "disconnected"
  /\ lifecycle' = "disconnected"
  /\ isInitialized' = FALSE
  /\ IF eventHandlers["onDisconnected"] = "app"
     THEN /\ lastDisconnect' = [calls |-> 1, arg |-> reason]
          /\ stopScheduledTask
     ELSE /\ lastDisconnect' = NoDisconnect
          /\ UNCHANGED schedVars
  /\ delivered' = 0
  /\ Invoke("onDisconnected")
  /\ UNCHANGED lastAuthFailure
  /\ UNCHANGED registered
  /\ UNCHANGED <<eventHandlers, initCalls, apiCall, destroyPc>>
  /\ UNCHANGED <<proc, exitCode, targetSet, testMode, readyPending>>
  /\ UNCHANGED dispatchVars


\* --------------------------------------------------- inbound messages
\* String.prototype.toLowerCase on the characters used by the message
\* bodies: Latin capitals map to their small letters, every other
\* character (punctuation, blanks, Arabic letters) maps to itself.
LowerChar(c) ==
  CASE c = "P" -> "p" [] c = "R" -> "r" [] c = "A" -> "a" [] c = "Y" -> "y"
    [] c = "E" -> "e" [] c = "H" -> "h" [] c = "L" -> "l"
    [] OTHER -> c

\* Mutant of toLowerCase: the body is compared as it was typed.
toLowerCase_Identity(b) ==
  b

toLowerCase(b) ==
  [i \in 1..Len(b) |-> LowerChar(b[i])]

\* '!prayer', '!صلاة', '!help', '!مساعدة' as character sequences; the
\* Arabic letters are written by name.
CmdPrayer ==
  <<"!", "p", "r", "a", "y", "e", "r">>
CmdPrayerAr ==
  <<"!", "sad", "lam", "alef", "teh_marbuta">>
CmdHelp ==
  <<"!", "h", "e", "l", "p">>
CmdHelpAr ==
  <<"!", "meem", "seen", "alef", "ain", "dal", "teh_marbuta">>

\* The bodies the transport delivers.
Bodies ==
  {CmdPrayer, CmdPrayerAr, CmdHelp, CmdHelpAr,
   <<"!", "P", "R", "A", "Y", "E", "R">>,
   <<"!", "P", "r", "a", "y", "e", "r">>,
   <<"!", "H", "E", "L", "P">>,
   <<"!", "u", "n", "k", "n", "o", "w", "n">>,
   <<"!", "p", "r", "a", "y", "e", "r", " ", "n", "o", "w">>,
   <<" ", "!", "p", "r", "a", "y", "e", "r">>,
   <<>>}

\* message.from, split at its '@'.
Senders ==
  {[user |-> "201234567890", server |-> "c.us"],
   [user |-> "120363000000", server |-> "g.us"],
   [user |-> "status", server |-> "broadcast"],
   [user |-> "120363111111", server |-> "newsletter"]}

\* Mutant of IsBroadcast: newsletter senders are not filtered.
IsBroadcast_StatusOnly(from) ==
  from.user = "status" /\ from.server = "broadcast"

\* message.from === 'status@broadcast' || message.from.endsWith('@newsletter')
IsBroadcast(from) ==
  \/ (from.user = "status" /\ from.server = "broadcast")
  \/ from.server = "newsletter"

\* Mutant of classify: a body that begins with an alias is taken for it.
classify_PrefixMatch(from, body) ==
  LET StartsWith(s, a) == Len(s) >= Len(a) /\ SubSeq(s, 1, Len(a)) = a
  IN  IF IsBroadcast(from) THEN "ignore"
      ELSE IF \/ StartsWith(toLowerCase(body), CmdPrayer)
              \/ StartsWith(toLowerCase(body), CmdPrayerAr)
           THEN "trigger"
      ELSE IF \/ StartsWith(toLowerCase(body), CmdHelp)
              \/ StartsWith(toLowerCase(body), CmdHelpAr)
           THEN "help"
      ELSE "ignore"

\* Mutant of classify: a help alias also runs the dispatch.
classify_HelpIsTrigger(from, body) ==
  IF IsBroadcast(from) THEN "ignore"
  ELSE IF \/ toLowerCase(body) \in {CmdPrayer, CmdPrayerAr}
          \/ toLowerCase(body) \in {CmdHelp, CmdHelpAr}
       THEN "trigger"
  ELSE "ignore"

\* The branch the application's onMessage handler takes.
classify(from, body) ==
  IF IsBroadcast(from) THEN "ignore"
  ELSE IF toLowerCase(body) = CmdPrayer \/ toLowerCase(body) = CmdPrayerAr
       THEN "trigger"
  ELSE IF toLowerCase(body) = CmdHelp \/ toLowerCase(body) = CmdHelpAr
       THEN "help"
  ELSE "ignore"

\* The branch taken for each message the transport can deliver.
branchOf ==
  [from \in Senders |-> [body \in Bodies |-> classify(from, body)]]

\* client.on('message'): calls onMessage(message).  The application's
\* handler drops broadcast senders, runs sendDailyPrayerPoll() and then
\* replies on a trigger alias, replies with the help text on a help alias.
ClientMessage(from, body) ==
  /\ Alive
  /\ client = "ready"
  /\ IF eventHandlers["onMessage"] = "app"
     THEN CASE branchOf[from][body] = "trigger" ->
                 sendDailyPrayerPoll("command")
            [] branchOf[from][body] = "help" ->
                 /\ lastReply' = "help"
                 /\ UNCHANGED <<dispatches, lastTrigger, lastSettled>>
            [] OTHER -> UNCHANGED dispatchVars
     ELSE UNCHANGED dispatchVars
  /\ delivered' = 1 - delivered
  /\ Invoke("onMessage")
  /\ UNCHANGED registered
  /\ UNCHANGED <<isInitialized, eventHandlers, client, initCalls, lifecycle,
                 apiCall, destroyPc>>
  /\ UNCHANGED <<proc, exitCode, targetSet, testMode, readyPending,
                 lastDisconnect, lastAuthFailure>>
  /\ UNCHANGED schedVars

\* ------------------------------------------------------------- the clock
\* The cron pattern '0 9 * * *' in the configured timezone: one fire time
\* per day.  A day is DayLen ticks long and the fire time is tick FireSlot
\* of it.
IsFireTime(t) ==
  t % DayLen = FireSlot

\* Time passes.  When the clock reaches a fire time the callback of every
\* running cron task becomes due.
Tick ==
  /\ Alive
  /\ proc \notin {"launched", "constructed"}
  /\ now < MaxClock
  /\ due = {}
  /\ now' = now + 1
  /\ due' = IF IsFireTime(now + 1) THEN tasks ELSE {}
  /\ UNCHANGED <<scheduledTask, tasks, nTasks>>
  /\ UNCHANGED botVars
  /\ UNCHANGED <<proc, exitCode, targetSet, testMode, readyPending,
                 lastDisconnect, lastAuthFailure, delivered>>
  /\ UNCHANGED dispatchVars

\* The callback given to cron.schedule(): logs, then
\* `await this.sendDailyPrayerPoll()`.
CronFire(t) ==
  /\ Alive
  /\ t \in due
  /\ due' = due \ {t}
  /\ sendDailyPrayerPoll("timer")
  /\ UNCHANGED <<scheduledTask, tasks, nTasks, now>>
  /\ UNCHANGED botVars
  /\ UNCHANGED <<proc, exitCode, targetSet, testMode, readyPending,
                 lastDisconnect, lastAuthFailure, delivered>>


\* ------------------------------------------- initialize, start, shutdown
\* initialize(): logs and awaits client.initialize().  No state is
\* consulted; every call starts a connection attempt of the client.
initialize ==
  /\ initCalls < MaxInit
  /\ initCalls' = initCalls + 1
  /\ client' = IF client \in {"idle", "failed", "disconnected"}
               THEN "connecting" ELSE client
  /\ UNCHANGED <<registered, called>>
  /\ UNCHANGED <<isInitialized, eventHandlers, lifecycle, apiCall,
                 destroyPc>>

\* A caller of the class calls bot.initialize().
CallInitialize ==
  /\ Alive
  /\ initialize
  /\ UNCHANGED appVars

\* Mutant of on: a name that has a handler keeps it.
on_FirstWins(eventName, handler) ==
  /\ Len(registered) < MaxRegs
  /\ eventHandlers' = IF eventHandlers[eventName] = "none"
                      THEN [eventHandlers EXCEPT ![eventName] = handler]
                      ELSE eventHandlers
  /\ registered' = Append(registered, <<eventName, handler>>)

\* on(eventName, handler): `this.eventHandlers[eventName] = handler`.
on(eventName, handler) ==
  /\ Len(registered) < MaxRegs
  /\ eventHandlers' = [eventHandlers EXCEPT ![eventName] = handler]
  /\ registered' = Append(registered, <<eventName, handler>>)

\* A caller of the class calls bot.on(eventName, handler).
CallOn(eventName, handler) ==
  /\ Alive
  /\ on(eventName, handler)
  /\ UNCHANGED <<isInitialized, client, initCalls, lifecycle, apiCall,
                 destroyPc, called>>
  /\ UNCHANGED appVars

\* The six bot.on(...) calls of setupBotEventHandlers(), in their order.
AppRegistrations ==
  <<<<"onQR", "app">>, <<"onAuthenticated", "app">>,
    <<"onAuthenticationFailure", "app">>, <<"onReady", "app">>,
    <<"onMessage", "app">>, <<"onDisconnected", "app">>>>

\* setupBotEventHandlers(), run by the PrayerReminderBot constructor.
setupBotEventHandlers ==
  /\ eventHandlers' = [e \in EventNames |-> "app"]
  /\ registered' = AppRegistrations

\* Mutant of main: a missing TARGET_CHAT_ID is not checked.
main_IgnoresMissingTarget ==
  /\ proc = "launched"
  /\ proc' = "constructed"
  /\ eventHandlers' = [e \in EventNames |-> "app"]
  /\ registered' = AppRegistrations
  /\ UNCHANGED <<isInitialized, client, initCalls, lifecycle, apiCall,
                 destroyPc, called>>
  /\ UNCHANGED <<exitCode, targetSet, testMode, readyPending, lastDisconnect,
                 lastAuthFailure, delivered>>
  /\ UNCHANGED schedVars
  /\ UNCHANGED dispatchVars

\* main() up to prayerBot.start(): without TARGET_CHAT_ID it logs and
\* calls process.exit(1); otherwise it constructs the PrayerReminderBot,
\* whose setupBotEventHandlers() registers the six application handlers,
\* and installs the signal handlers.
main ==
  /\ proc = "launched"
  /\ IF ~targetSet
     THEN /\ proc' = "exited"
          /\ exitCode' = 1
          /\ UNCHANGED <<eventHandlers, registered>>
     ELSE /\ proc' = "constructed"
          /\ setupBotEventHandlers
          /\ UNCHANGED exitCode
  /\ UNCHANGED <<isInitialized, client, initCalls, lifecycle, apiCall,
                 destroyPc, called>>
  /\ UNCHANGED <<targetSet, testMode, readyPending, lastDisconnect,
                 lastAuthFailure, delivered>>
  /\ UNCHANGED schedVars
  /\ UNCHANGED dispatchVars

\* Mutant of Start: start() arms the schedule itself.
Start_ArmsSchedule ==
  /\ proc = "constructed"
  /\ proc' = "started"
  /\ initialize
  /\ scheduleDailyPoll
  /\ UNCHANGED exitCode
  /\ UNCHANGED <<targetSet, testMode, readyPending, lastDisconnect,
                 lastAuthFailure, delivered>>
  /\ UNCHANGED dispatchVars

\* main(): prayerBot.start(), which awaits bot.initialize().
Start ==
  /\ proc = "constructed"
  /\ proc' = "started"
  /\ initialize
  /\ UNCHANGED exitCode
  /\ UNCHANGED <<targetSet, testMode, readyPending, lastDisconnect,
                 lastAuthFailure, delivered>>
  /\ UNCHANGED schedVars
  /\ UNCHANGED dispatchVars

\* client.initialize() rejects.  start() catches it and exits the process
\* with status 1; a direct caller of initialize() gets the rejection.
InitializeFailed ==
  /\ Alive
  /\ client = "connecting"
  /\ client' = "failed"
  /\ proc' = IF proc = "started" THEN "exited" ELSE proc
  /\ exitCode' = IF proc = "started" THEN 1 ELSE exitCode
  /\ UNCHANGED <<registered, called>>
  /\ UNCHANGED <<isInitialized, eventHandlers, initCalls, lifecycle,
                 apiCall, destroyPc>>
  /\ UNCHANGED <<targetSet, testMode, readyPending, lastDisconnect,
                 lastAuthFailure, delivered>>
  /\ UNCHANGED schedVars
  /\ UNCHANGED dispatchVars

\* destroy() up to its await: logs and calls client.destroy().
destroy ==
  /\ destroyPc # "closing"
  /\ destroyPc' = "closing"
  /\ UNCHANGED <<registered, called>>
  /\ UNCHANGED <<isInitialized, eventHandlers, client, initCalls,
                 lifecycle, apiCall>>

\* A caller of the class calls bot.destroy().
CallDestroy ==
  /\ Alive
  /\ proc = "constructed"
  /\ destroy
  /\ UNCHANGED appVars

\* SIGINT / SIGTERM: stop() stops the task in scheduledTask, then awaits
\* bot.destroy().
Stop ==
  /\ proc = "started"
  /\ proc' = "stopping"
  /\ stopScheduledTask
  /\ destroy
  /\ UNCHANGED exitCode
  /\ UNCHANGED <<targetSet, testMode, readyPending, lastDisconnect,
                 lastAuthFailure, delivered>>
  /\ UNCHANGED dispatchVars

\* client.destroy() resolves: destroy() clears the flag and returns.  In a
\* shutdown stop() then returns and the signal handler calls process.exit(0).
DestroyReturn ==
  /\ Alive
  /\ destroyPc = "closing"
  /\ destroyPc' = "returned"
  /\ isInitialized' = FALSE
  /\ lifecycle' = "teardown"
  /\ client' = "idle"
  /\ proc' = IF proc = "stopping" THEN "exited" ELSE proc
  /\ exitCode' = IF proc = "stopping" THEN 0 ELSE exitCode
  /\ lastDisconnect' = NoDisconnect
  /\ delivered' = 0
  /\ lastAuthFailure' = NoAuthFailure
  /\ UNCHANGED <<registered, called>>
  /\ UNCHANGED <<eventHandlers, initCalls, apiCall>>
  /\ UNCHANGED <<targetSet, testMode, readyPending>>
  /\ UNCHANGED schedVars
  /\ UNCHANGED dispatchVars

\* client.destroy() rejects: destroy() rejects before the statement that
\* clears the flag.  In a shutdown the rejection leaves stop() and the
\* signal handler uncaught, which ends the process.
DestroyRaise ==
  /\ Alive
  /\ destroyPc = "closing"
  /\ destroyPc' = "raised"
  /\ proc' = IF proc = "stopping" THEN "exited" ELSE proc
  /\ exitCode' = IF proc = "stopping" THEN 1 ELSE exitCode
  /\ UNCHANGED <<registered, called>>
  /\ UNCHANGED <<isInitialized, eventHandlers, client, initCalls,
                 lifecycle, apiCall>>
  /\ UNCHANGED <<targetSet, testMode, readyPending, lastDisconnect,
                 lastAuthFailure, delivered>>
  /\ UNCHANGED schedVars
  /\ UNCHANGED dispatchVars

\* ------------------------------------------------- direct sends of a caller
ApiIdle ==
  apiCall.st \notin {"Mentions", "Sending"}

\* A caller of the class calls bot.sendPoll() with n options.
CallSendPoll(n, chatEmpty) ==
  /\ Alive
  /\ ApiIdle
  /\ LET r == sendPoll(isInitialized, n, chatEmpty)
     IN  apiCall' = [op |-> "sendPoll", nopts |-> n, chatEmpty |-> chatEmpty,
                     parseMentions |-> FALSE, readyAtCall |-> isInitialized,
                     st |-> r, attempts |-> IF r = "Sending" THEN 1 ELSE 0]
  /\ UNCHANGED <<registered, called>>
  /\ UNCHANGED <<isInitialized, eventHandlers, client, initCalls,
                 lifecycle, destroyPc>>
  /\ UNCHANGED appVars

\* A caller of the class calls bot.sendMessage().
CallSendMessage(parseMentions, chatEmpty) ==
  /\ Alive
  /\ ApiIdle
  /\ LET r == sendMessage(isInitialized, parseMentions)
     IN  apiCall' = [op |-> "sendMessage", nopts |-> 0,
                     chatEmpty |-> chatEmpty,
                     parseMentions |-> parseMentions,
                     readyAtCall |-> isInitialized,
                     st |-> r, attempts |-> IF r = "Sending" THEN 1 ELSE 0]
  /\ UNCHANGED <<registered, called>>
  /\ UNCHANGED <<isInitialized, eventHandlers, client, initCalls,
                 lifecycle, destroyPc>>
  /\ UNCHANGED appVars

\* sendMessage() after `await this.parseMentions(...)`: client.sendMessage()
\* is invoked; the flag is not read again.
SendMessageResume ==
  /\ Alive
  /\ apiCall.st = "Mentions"
  /\ apiCall' = [apiCall EXCEPT !.st = "Sending", !.attempts = @ + 1]
  /\ UNCHANGED <<registered, called>>
  /\ UNCHANGED <<isInitialized, eventHandlers, client, initCalls,
                 lifecycle, destroyPc>>
  /\ UNCHANGED appVars

\* client.sendMessage() resolves: the call returns the message.
ApiSendOk ==
  /\ Alive
  /\ apiCall.st = "Sending"
  /\ apiCall' = [apiCall EXCEPT !.st = "Sent"]
  /\ UNCHANGED <<registered, called>>
  /\ UNCHANGED <<isInitialized, eventHandlers, client, initCalls,
                 lifecycle, destroyPc>>
  /\ UNCHANGED appVars

\* client.sendMessage() rejects: the catch block rethrows "Failed to send".
ApiSendFail ==
  /\ Alive
  /\ apiCall.st = "Sending"
  /\ apiCall' = [apiCall EXCEPT !.st = "SendError"]
  /\ UNCHANGED <<registered, called>>
  /\ UNCHANGED <<isInitialized, eventHandlers, client, initCalls,
                 lifecycle, destroyPc>>
  /\ UNCHANGED appVars

\* --------------------------------------------------------- specifications
ClientEvent ==
  \/ ClientQr
  \/ ClientAuthenticated
  \/ \E message \in FailureMessages : ClientAuthFailure(message)
  \/ ClientReady
  \/ \E reason \in Reasons : ClientDisconnected(reason)
  \/ \E from \in Senders, body \in Bodies : ClientMessage(from, body)

\* A WhatsAppBot used directly through its public methods.
NextBot ==
  \/ CallInitialize
  \/ InitializeFailed
  \/ ClientEvent
  \/ \E n \in 0..MaxOptions, ce \in BOOLEAN : CallSendPoll(n, ce)
  \/ \E pm \in BOOLEAN, ce \in BOOLEAN : CallSendMessage(pm, ce)
  \/ SendMessageResume
  \/ ApiSendOk
  \/ ApiSendFail
  \/ CallDestroy
  \/ DestroyReturn
  \/ DestroyRaise

SpecBot ==
  InitBot /\ [][NextBot]_vars

\* A WhatsAppBot whose caller registers handlers, at any moment, and
\* connects it; the transport delivers its events.
NextRegistry ==
  \/ \E e \in EventNames, h \in UserHandlers : CallOn(e, h)
  \/ CallInitialize
  \/ InitializeFailed
  \/ ClientQr
  \/ ClientAuthenticated
  \/ \E message \in FailureMessages : ClientAuthFailure(message)
  \/ ClientReady
  \/ \E reason \in Reasons : ClientDisconnected(reason)
  \/ \E from \in Senders : ClientMessage(from, CmdPrayer)

SpecRegistry ==
  InitBot /\ [][NextRegistry]_vars

\* The PrayerReminderBot process.
Next ==
  \/ main
  \/ Start
  \/ InitializeFailed
  \/ ClientEvent
  \/ onReadyResume
  \/ Tick
  \/ \E t \in 1..MaxTasks : CronFire(t)
  \/ \E i \in 1..MaxInflight : PollSent(i)
  \/ \E i \in 1..MaxInflight : PollFailed(i)
  \/ Stop
  \/ DestroyReturn
  \/ DestroyRaise

Spec ==
  Init /\ [][Next]_vars


\* ----------------------------------------------------------------- claims
OutOfRange(n) ==
  n < MinPollOptions \/ n > MaxPollOptions

\* The session state of the design, read off the underlying client.
SessionState ==
  CASE client = "idle" -> "Uninitialized"
    [] client = "failed" -> "Uninitialized"
    [] client = "connecting" -> "Authenticating"
    [] client = "authenticated" -> "Authenticated"
    [] client = "ready" -> "Ready"
    [] OTHER -> "Disconnected"

\* C1: a sendPoll or sendMessage call issued while the session is not Ready
\* fails with the not-initialized error, invokes no transport send and stays
\* that way (it is not queued); a call invokes the transport send only if
\* the session was Ready when ensureInitialized() ran, and a call issued in
\* Ready does not fail with the not-initialized error.
C1_SendRequiresReady ==
  /\ (apiCall.op # "none" /\ ~apiCall.readyAtCall)
       => (apiCall.st = "NotInitialized" /\ apiCall.attempts = 0)
  /\ apiCall.attempts > 0 => apiCall.readyAtCall
  /\ apiCall.st \in {"Mentions", "Sending", "Sent", "SendError"}
       => apiCall.readyAtCall
  /\ (apiCall.op # "none" /\ apiCall.readyAtCall)
       => apiCall.st # "NotInitialized"

\* C1 witness: a poll was requested after a disconnect and was refused.
C1_Witness ==
  /\ apiCall.op = "sendPoll"
  /\ client = "disconnected"
  /\ ~apiCall.readyAtCall
  /\ apiCall.st = "NotInitialized"
  /\ apiCall.attempts = 0

\* C2 (as claimed): at most one send of the recurring poll is in flight at
\* any time.
C2_AtMostOneInFlight ==
  Len(dispatches) <= 1

\* C3 (as claimed): an invocation of the recurring action that arrives
\* while a dispatch is in progress is skipped and reported as skipped.
C3_OverlappingTriggerSkipped ==
  lastTrigger.overlap => lastTrigger.result = "skipped"

\* C4: the settling of a dispatch, with success or with failure, leaves the
\* schedule as it was, and every invocation of the recurring action runs
\* the send path: with the session Ready it puts a send in flight, otherwise
\* it fails with the not-initialized error; none is skipped.
C4_SettledDispatchBlocksNothing ==
  [][/\ Len(dispatches') < Len(dispatches)
          => UNCHANGED <<scheduledTask, tasks, due, nTasks>>
     /\ (lastTrigger' # lastTrigger /\ lastTrigger'.origin # "none")
          => /\ lastTrigger'.result = "executed"
             /\ IF isInitialized
                THEN dispatches' = Append(dispatches,
                                          [origin |-> lastTrigger'.origin])
                ELSE dispatches' = dispatches
                     /\ lastSettled' = "NotInitialized"]_vars

\* C4 witness: after a dispatch failed in the transport, with nothing left
\* in flight, a timer fire found its schedule armed and its send is in
\* flight.
C4_Witness ==
  /\ lastSettled = "SendError"
  /\ lastTrigger.origin = "timer"
  /\ ~lastTrigger.overlap
  /\ lastTrigger.result = "executed"
  /\ Len(dispatches) = 1
  /\ scheduledTask \in tasks

C7_EmptyTargetRejected ==
  (apiCall.op = "sendPoll" /\ apiCall.chatEmpty
     /\ ~OutOfRange(apiCall.nopts))
    => (apiCall.st = "MissingTarget" /\ apiCall.attempts = 0)

\* C8 (as claimed): initialize() starts a connection attempt only when the
\* session is Uninitialized.
C8_InitializeOnlyWhenUninitialized ==
  [][initCalls' # initCalls => SessionState = "Uninitialized"]_vars

\* C9: isReady() is true exactly when the last of the ready events,
\* disconnect events and completed teardowns was a ready event.
C9_ReadyIffLastWasReady ==
  isReady <=> (lifecycle = "ready")

\* C9 witness: the session is Ready while the scheduler has armed a task, a
\* dispatch has failed, the command handler has replied and a send is in
\* flight.
C9_Witness ==
  /\ isReady
  /\ lifecycle = "ready"
  /\ scheduledTask \in tasks
  /\ lastSettled = "SendError"
  /\ lastReply = "ack"
  /\ Len(dispatches) > 0

\* C10 (as claimed): when destroy() ends, by returning or by raising, the
\* session is not Ready.
C10_TeardownLeavesNotReady ==
  [][(destroyPc = "closing" /\ destroyPc' # "closing") => ~isReady']_vars


\* The step on which the transport reports a disconnect to a Ready session.
DisconnectStep ==
  lifecycle = "ready" /\ lifecycle' = "disconnected"

C13_AtMostOneArmed ==
  Cardinality(tasks) <= 1

\* The step on which the callback of a cron task runs the dispatch.
TimerDispatchStep ==
  /\ now' = now
  /\ tasks' = tasks
  /\ due' # due

\* The step on which stop() is called for a shutdown.
ShutdownStep ==
  proc = "started" /\ proc' = "stopping"

\* C14: once the shutdown has stopped the schedule, and as long as no
\* schedule has been armed again, no timer callback runs the dispatch.
C14_NoTimerDispatchAfterDisarm ==
  [][(proc = "stopping" /\ scheduledTask \notin tasks)
       => ~TimerDispatchStep]_vars

\* C15: stopping the schedule (on shutdown or on a disconnect) stops the
\* task held in scheduledTask and nothing else; when that task is stopped
\* already, or no task was ever created, it changes nothing of the
\* schedule, and the shutdown goes on to tear the session down.
C15_DisarmIdempotentTotal ==
  [][/\ (ShutdownStep \/ DisconnectStep)
        => /\ tasks' = tasks \ {scheduledTask}
           /\ UNCHANGED <<scheduledTask, nTasks, now>>
           /\ scheduledTask \notin tasks => UNCHANGED schedVars
           /\ scheduledTask' \notin tasks'
     /\ ShutdownStep => destroyPc' = "closing"]_vars

\* C15 witness: the schedule was stopped twice, by a disconnect and by the
\* shutdown, with no task created in between.
C15_Witness ==
  /\ proc = "stopping"
  /\ lifecycle = "disconnected"
  /\ nTasks = 1
  /\ scheduledTask = 1
  /\ tasks = {}

\* C16: the timer dispatch of an occurrence of the fire time is the only
\* one for that occurrence (no other callback is left due for it), and no
\* timer dispatch happens at a clock value that is not a fire time.
C16_OneDispatchPerOccurrence ==
  [][TimerDispatchStep => (IsFireTime(now) /\ due' = {})]_vars

\* C17: no callback becomes due for a fire time that has passed: creating a
\* task makes nothing due, nothing becomes due while the clock stands, and
\* at a clock value exactly the tasks running at that moment become due,
\* and only if it is a fire time.
C17_NoCatchUp ==
  [][/\ nTasks' # nTasks => due' = due
     /\ now' = now => due' \subseteq due
     /\ now' # now => due' = (IF IsFireTime(now') THEN tasks ELSE {})
     /\ TimerDispatchStep => IsFireTime(now)]_vars

\* C17 witness: the clock stands at a fire time, a task was created after
\* the clock reached it, and no dispatch was made for the occurrence.
C17_Witness ==
  /\ IsFireTime(now)
  /\ tasks = {1}
  /\ nTasks = 1
  /\ due = {}
  /\ ~testMode
  /\ dispatches = <<>>
  /\ lastSettled = "none"
  /\ lastTrigger = NoTrigger

\* The command table of the specification: the aliases of each command.
TriggerAliases ==
  {CmdPrayer, CmdPrayerAr}

HelpAliases ==
  {CmdHelp, CmdHelpAr}

\* The letters of the aliases, as <<upper case, lower case>>.
CasePairs ==
  {<<"P", "p">>, <<"R", "r">>, <<"A", "a">>, <<"Y", "y">>, <<"E", "e">>,
   <<"H", "h">>, <<"L", "l">>}

\* Two characters are the same letter, whatever their case.
SameLetter(c, d) ==
  c = d \/ <<c, d>> \in CasePairs \/ <<d, c>> \in CasePairs

\* Case-insensitive exact match of a body with one of the aliases.
MatchesAlias(body, aliases) ==
  \E a \in aliases :
    /\ Len(body) = Len(a)
    /\ \A i \in 1..Len(a) : SameLetter(body[i], a[i])

\* The bodies that are a trigger alias in some letter case, and the bodies
\* that match no alias of the table.
TriggerBodies ==
  {body \in Bodies : MatchesAlias(body, TriggerAliases)}

UnmatchedBodies ==
  {body \in Bodies : ~MatchesAlias(body, TriggerAliases \cup HelpAliases)}

\* The broadcast and system pseudo-senders.
PseudoSenders ==
  {from \in Senders : from.server \in {"broadcast", "newsletter"}}

\* The step on which the send of a dispatch started by a command settles.
CommandSettleStep ==
  \E i \in 1..Len(dispatches) :
    /\ dispatches[i].origin = "command"
    /\ dispatches' = RemoveAt(dispatches, i)

\* C18: a message from an ordinary sender whose body is a trigger alias in
\* any letter case, delivered to a Ready session, starts exactly one send
\* of the poll (a delivery that does anything else is not the delivery of
\* such a message), and the one reply made for it, when that send has
\* settled, is the acknowledgment; the settling of a send that no command
\* started makes no reply.
C18_TriggerSendsAndAcks ==
  [][/\ (/\ delivered' # delivered
         /\ isReady
         /\ ~(/\ dispatches' = Append(dispatches, [origin |-> "command"])
              /\ UNCHANGED <<lastReply, lastSettled>>))
        => \A from \in Senders \ PseudoSenders, body \in TriggerBodies :
             ~ClientMessage(from, body)
     /\ Len(dispatches') < Len(dispatches)
        => /\ CommandSettleStep => lastReply' = "ack"
           /\ ~CommandSettleStep => lastReply' = lastReply]_vars

\* C18 witness: a command-triggered send has settled and was acknowledged,
\* with no timer or start-up dispatch made.
C18_Witness ==
  /\ lastReply = "ack"
  /\ lastSettled = "Sent"
  /\ dispatches = <<>>
  /\ ~testMode
  /\ now = 0
  /\ isReady

\* C19: a message whose body matches no alias of the command table under
\* case-insensitive exact match causes no reply and no poll send: a
\* delivery that replies or dispatches is not the delivery of such a body.
C19_UnmatchedIgnored ==
  [][(delivered' # delivered /\ ~UNCHANGED dispatchVars)
       => \A from \in Senders, body \in UnmatchedBodies :
            ~ClientMessage(from, body)]_vars

\* C19 witness: a message was delivered to the Ready session, and no
\* dispatch and no reply has been made.
C19_Witness ==
  /\ delivered = 1
  /\ isReady
  /\ ~testMode
  /\ dispatches = <<>>
  /\ lastTrigger = NoTrigger
  /\ lastSettled = "none"
  /\ lastReply = "none"

\* C20: a message from a broadcast or system pseudo-sender causes no poll
\* send and no reply, whatever its body: a delivery that replies or
\* dispatches is not a delivery from such a sender.
C20_PseudoSenderIgnored ==
  [][(delivered' # delivered /\ ~UNCHANGED dispatchVars)
       => \A from \in PseudoSenders, body \in Bodies :
            ~ClientMessage(from, body)]_vars

\* C20 witness: in a test-mode session whose start-up poll was sent, a
\* message was delivered and no reply has been made.
C20_Witness ==
  /\ delivered = 1
  /\ isReady
  /\ testMode
  /\ dispatches = <<>>
  /\ lastSettled = "Sent"
  /\ lastReply = "none"

\* The bodies that are a help alias in some letter case.
HelpBodies ==
  {body \in Bodies : MatchesAlias(body, HelpAliases)}

\* C21: a message from an ordinary sender whose body is a help alias in
\* any letter case is answered with the help text and starts no dispatch
\* (a delivery that does anything else is not the delivery of such a
\* message).
C21_HelpRepliesOnly ==
  [][(/\ delivered' # delivered
      /\ ~(/\ lastReply' = "help"
           /\ UNCHANGED <<dispatches, lastTrigger, lastSettled>>))
       => \A from \in Senders \ PseudoSenders, body \in HelpBodies :
            ~ClientMessage(from, body)]_vars

\* C21 witness: the help text was the reply, and no dispatch was ever made.
C21_Witness ==
  /\ lastReply = "help"
  /\ ~testMode
  /\ dispatches = <<>>
  /\ lastTrigger = NoTrigger
  /\ lastSettled = "none"

\* C22: a dispatch that fails ends as one failed dispatch and the process
\* goes on: the failure of a send in flight removes that one dispatch and
\* is recorded, a timer dispatch made while the session is not Ready is
\* recorded as failed with no send started, and no step that touches the
\* dispatch state changes the state of the process.
C22_FailureContained ==
  [][/\ ~UNCHANGED dispatchVars => UNCHANGED <<proc, exitCode>>
     /\ Len(dispatches') < Len(dispatches)
        => /\ Len(dispatches') = Len(dispatches) - 1
           /\ lastSettled' \in {"Sent", "SendError"}
     /\ (TimerDispatchStep /\ ~isReady)
        => /\ lastSettled' = "NotInitialized"
           /\ dispatches' = dispatches
           /\ UNCHANGED <<proc, exitCode>>]_vars

\* C22 witness: a dispatch failed because the session was not Ready, and
\* the process runs on.
C22_Witness ==
  /\ lastSettled = "NotInitialized"
  /\ ~isReady
  /\ proc = "started"
  /\ exitCode = -1

\* The step on which the transport delivers a message.
MessageStep ==
  /\ delivered' # delivered
  /\ client = "ready"
  /\ client' = "ready"

\* The steps that call sendDailyPrayerPoll(): a timer callback, a message
\* delivery, the resumption of the ready handler.
TriggerStep ==
  \/ TimerDispatchStep
  \/ MessageStep
  \/ readyPending' < readyPending

\* C23: a send is started by a trigger only, one send per trigger, and the
\* failure of a send leaves that send ended, with none started in its
\* place.
C23_NoRetry ==
  [][/\ Len(dispatches') > Len(dispatches)
        => (TriggerStep /\ Len(dispatches') = Len(dispatches) + 1)
     /\ (lastSettled # "SendError" /\ lastSettled' = "SendError")
        => Len(dispatches') = Len(dispatches) - 1
     /\ ~TriggerStep => Len(dispatches') <= Len(dispatches)]_vars

\* C23 witness: the one send made so far failed, nothing is in flight and
\* no trigger has come since.
C23_Witness ==
  /\ lastSettled = "SendError"
  /\ dispatches = <<>>
  /\ lastTrigger = NoTrigger
  /\ proc = "started"
  /\ isReady
  /\ now = 0

\* C24: a termination signal stops the schedule and starts the teardown
\* in that order, and the process exits from the shutdown only when the
\* schedule is stopped and the teardown has completed.
C24_ExitAfterDisarmAndTeardown ==
  [][/\ ShutdownStep
        => (tasks' = tasks \ {scheduledTask} /\ destroyPc' = "closing")
     /\ (proc = "stopping" /\ proc' = "exited")
        => /\ scheduledTask \notin tasks
           /\ destroyPc' = "returned"
           /\ ~isReady'
           /\ exitCode' = 0]_vars

\* C25: without the target identifier the process does nothing but exit
\* with an error: initialize() is never called, no session is started and
\* no schedule is armed.
C25_MissingTargetIsFatal ==
  ~targetSet
    => /\ proc \in {"launched", "exited"}
       /\ proc = "exited" => exitCode = 1
       /\ initCalls = 0
       /\ client = "idle"
       /\ ~isReady
       /\ nTasks = 0
       /\ tasks = {}

\* C25 witness: the process was launched without the target identifier and
\* has exited with status 1.
C25_Witness ==
  /\ ~targetSet
  /\ proc = "exited"
  /\ exitCode = 1
  /\ initCalls = 0

\* C29: until the first ready event no task exists and nothing is due, and
\* a task is created, or a timer callback runs the dispatch, only when a
\* ready event has been handled.
C29_ArmedOnlyAfterReady ==
  [][/\ lifecycle' = "none"
        => (nTasks' = 0 /\ tasks' = {} /\ due' = {} /\ scheduledTask' = 0)
     /\ (nTasks' > nTasks \/ TimerDispatchStep)
        => lifecycle \in {"ready", "disconnected"}]_vars

\* C29 witness: the clock reached a fire time while the started process
\* had seen no ready event: nothing is armed and nothing was dispatched.
C29_Witness ==
  /\ proc = "started"
  /\ lifecycle = "none"
  /\ IsFireTime(now)
  /\ nTasks = 0
  /\ lastTrigger = NoTrigger
  /\ lastSettled = "none"
  /\ dispatches = <<>>

\* C30: the part of the ready handler that runs after its suspension is
\* applied while the ready event is still the latest event handled.
C30_HandlerEffectsInOrder ==
  [][readyPending' < readyPending => lifecycle = "ready"]_vars

\* The handler most recently registered for event e in a sequence of
\* registrations, "none" if there is no registration for e.
LastIn(log, e) ==
  LET idx == {i \in 1..Len(log) : log[i][1] = e}
  IN  IF idx = {} THEN "none"
      ELSE log[CHOOSE i \in idx : \A j \in idx : j <= i][2]

\* The step on which the transport reports that the session is ready.
ReadyStep ==
  lifecycle # "ready" /\ lifecycle' = "ready"

\* C26: the registry holds for each event name the handler registered
\* last for it; a call made to a handler is made to the handler registered
\* last for the event emitted, and the ready, message and disconnected
\* events call that handler.
C26_LastRegistrationWins ==
  [][/\ \A e \in EventNames : eventHandlers'[e] = LastIn(registered', e)
     /\ called' # called
        => called'.handler = LastIn(registered, called'.event)
     /\ (ReadyStep /\ LastIn(registered, "onReady") # "none")
        => /\ called'.event = "onReady"
           /\ called'.handler = LastIn(registered, "onReady")
     /\ (DisconnectStep /\ LastIn(registered, "onDisconnected") # "none")
        => /\ called'.event = "onDisconnected"
           /\ called'.handler = LastIn(registered, "onDisconnected")
     /\ (MessageStep /\ LastIn(registered, "onMessage") # "none")
        => /\ called'.event = "onMessage"
           /\ called'.handler = LastIn(registered, "onMessage")]_vars

\* C26 witness: two handlers were registered for the ready event, and the
\* ready event called the second.
C26_Witness ==
  /\ registered = <<<<"onReady", "returns">>, <<"onReady", "throws">>>>
  /\ called.event = "onReady"
  /\ called.handler = "throws"
  /\ isReady

\* C27: an event for which no handler is registered calls no handler and
\* raises nothing, and the session still makes its own transition: the
\* ready event sets the flag, the disconnected event clears it.
C27_EmitWithoutHandlerIsNoOp ==
  [][/\ (ReadyStep /\ eventHandlers["onReady"] = "none")
        => (isReady' /\ client' = "ready" /\ called' = called)
     /\ (DisconnectStep /\ eventHandlers["onDisconnected"] = "none")
        => (~isReady' /\ client' = "disconnected" /\ called' = called)
     /\ (MessageStep /\ eventHandlers["onMessage"] = "none")
        => called' = called
     /\ called' # called
        => eventHandlers[called'.event] \in UserHandlers]_vars

\* C27 witness: a handler is registered, but none for the ready event; the
\* session became Ready and no handler was called.
C27_Witness ==
  /\ registered # <<>>
  /\ eventHandlers["onReady"] = "none"
  /\ eventHandlers["onAuthenticated"] = "none"
  /\ eventHandlers["onQR"] = "none"
  /\ lifecycle = "ready"
  /\ isReady
  /\ called = NoCalled

\* C28: the failure of a handler reaches the emitter of the event, whether
\* the handler throws or rejects after a suspension.
C28_HandlerFailurePropagates ==
  called.handler \in {"throws", "rejects"} => called.escaped = "emitter"

\* C31: when the client reports an authentication failure the registered
\* authentication-failure handler is invoked once, with the message of the
\* failure; the session is not Ready after it; and initialize is not called:
\* neither by the notification nor for as long as the client stays failed.
C31_AuthFailureSurfaced ==
  [][/\ \A message \in FailureMessages :
          ClientAuthFailure(message)
            => /\ lastAuthFailure' = [calls |-> 1, arg |-> message]
               /\ ~isReady'
               /\ SessionState' # "Ready"
               /\ initCalls' = initCalls
     /\ lastAuthFailure' # lastAuthFailure
          => \/ lastAuthFailure' = NoAuthFailure
             \/ client = "connecting" /\ client' = "failed"
     /\ client = "failed" => (initCalls' = initCalls /\ ~isReady')]_vars

\* C31 witness: the started process was told of an authentication failure,
\* its handler ran with the message, and initialize has been called once,
\* by start.
C31_Witness ==
  /\ proc = "started"
  /\ client = "failed"
  /\ lastAuthFailure = [calls |-> 1, arg |-> "session expired"]
  /\ ~isReady
  /\ initCalls = 1

\* C32: a shutdown does not cut off a send of the poll: a send in flight
\* when stop() is called settles before the process ends, and no send starts
\* once stop() has been called, so that the process of a shutdown never ends
\* with a send in flight.
C32_ShutdownSparesInFlightSend ==
  (proc = "exited" /\ destroyPc \in {"returned", "raised"})
    => dispatches = <<>>

\* The step on which an onReady handler resumes after its bot-info lookup.
ReadyResumeStep ==
  readyPending' < readyPending

\* C33: with TEST_MODE set, the handler of each ready event calls the
\* dispatch exactly once, in the step that has armed the schedule (the send
\* starts, or fails at once on a session no longer ready); without it, the
\* handler arms the schedule and dispatches nothing.  The ready event itself
\* dispatches nothing, and no dispatch of this origin is made elsewhere.
C33_TestFlagDispatchesOnReady ==
  [][/\ ReadyResumeStep
        => /\ readyPending' = readyPending - 1
           /\ nTasks' = nTasks + 1
           /\ scheduledTask' \in tasks'
           /\ IF testMode
              THEN /\ lastTrigger'.origin = "ready"
                   /\ \/ /\ dispatches' =
                              Append(dispatches, [origin |-> "ready"])
                         /\ UNCHANGED <<lastSettled, lastReply>>
                      \/ /\ dispatches' = dispatches
                         /\ lastSettled' = "NotInitialized"
                         /\ ~isReady
                         /\ UNCHANGED lastReply
              ELSE UNCHANGED dispatchVars
     /\ readyPending' > readyPending
        => /\ readyPending' = readyPending + 1
           /\ UNCHANGED dispatchVars
     /\ (/\ Len(dispatches') > Len(dispatches)
         /\ dispatches'[Len(dispatches')].origin = "ready")
        => (testMode /\ ReadyResumeStep)
     /\ (lastTrigger' # lastTrigger /\ lastTrigger'.origin = "ready")
        => (testMode /\ ReadyResumeStep)]_vars

\* C33 witness: in test mode the ready handler has armed the schedule and
\* its one dispatch is in flight, with no other dispatch made.
C33_Witness ==
  /\ testMode
  /\ readyPending = 0
  /\ nTasks = 1
  /\ scheduledTask \in tasks
  /\ dispatches = <<[origin |-> "ready"]>>
  /\ lastTrigger = [origin |-> "ready", overlap |-> FALSE,
                    result |-> "executed"]
  /\ now = 0

\* C34: once every ready handler has run to its end, the number of running
\* cron tasks follows the session: one while the started process is Ready,
\* none before the first ready event, after a disconnect, and once the
\* shutdown has stopped the schedule.
C34_TasksFollowSession ==
  readyPending = 0
    => /\ (lifecycle = "ready" /\ proc = "started") => Cardinality(tasks) = 1
       /\ (lifecycle # "ready" \/ proc \in {"stopping", "exited"})
            => tasks = {}

\* C35: the acknowledgment reply to a trigger command is made only once
\* its dispatch has settled, and only when that dispatch sent the poll: the
\* step on which the latest reply becomes the acknowledgment starts no send
\* and leaves "Sent" as the outcome of the dispatch settled last.
C35_AckOnlyWhenSent ==
  [][(lastReply # "ack" /\ lastReply' = "ack")
       => /\ Len(dispatches') <= Len(dispatches)
          /\ lastSettled' = "Sent"]_vars

====
